---- MODULE Spec2Model ----
(***************************************************************************)
(* A model of peurKe/meteo_climatologie: the Meteo class (src/meteo.py),   *)
(* the batch driver main() (src/meteo_climatologie.py) and the archived    *)
(* geocoding script (src/_archives/02_input_ville.py).                     *)
(*                                                                         *)
(* Text is modelled as a sequence of one-character strings, so that        *)
(* parsing, formatting and Python's string comparison are computed and not *)
(* assumed.  Coordinates live on a grid of whole degrees; distances are    *)
(* the values of the haversine formula on that grid, in metres.            *)
(***************************************************************************)
EXTENDS Integers, Sequences, FiniteSets, TLC

(***************************************************************************)
(* Bounds of the model.                                                    *)
(***************************************************************************)
\* longest batch of city records read from the inputs file
MaxCities == 2
\* longest station catalog handed to find_nearest_station on its own
MaxStations == 3
\* number of consecutive locations the Meteo resolver is driven through
MaxLocations == 2

(***************************************************************************)
(* Text.                                                                   *)
(***************************************************************************)
Digit == {"0", "1", "2", "3", "4", "5", "6", "7", "8", "9"}

\* the code point of a character: Python compares str values by code point
Ord(c) ==
  CASE c = " " -> 32 [] c = "-" -> 45
    [] c = "0" -> 48 [] c = "1" -> 49 [] c = "2" -> 50 [] c = "3" -> 51
    [] c = "4" -> 52 [] c = "5" -> 53 [] c = "6" -> 54 [] c = "7" -> 55
    [] c = "8" -> 56 [] c = "9" -> 57 [] c = ":" -> 58
    [] c = "T" -> 84 [] c = "Z" -> 90

DigitVal(c) == Ord(c) - 48

DigitChar(n) ==
  CASE n = 0 -> "0" [] n = 1 -> "1" [] n = 2 -> "2" [] n = 3 -> "3"
    [] n = 4 -> "4" [] n = 5 -> "5" [] n = 6 -> "6" [] n = 7 -> "7"
    [] n = 8 -> "8" [] n = 9 -> "9"

\* Python's  a > b  on two str values: lexicographic on code points, a proper
\* prefix being the smaller
RECURSIVE StrGreater(_, _)
StrGreater(a, b) ==
  IF a = << >> THEN FALSE
  ELSE IF b = << >> THEN TRUE
  ELSE IF Ord(Head(a)) # Ord(Head(b)) THEN Ord(Head(a)) > Ord(Head(b))
  ELSE StrGreater(Tail(a), Tail(b))

(***************************************************************************)
(* Calendar dates: datetime.date values are <<year, month, day>>.          *)
(***************************************************************************)
IsLeap(y) == (y % 4 = 0 /\ y % 100 # 0) \/ y % 400 = 0

DaysInMonth(y, m) ==
  IF m = 2 THEN (IF IsLeap(y) THEN 29 ELSE 28)
  ELSE IF m \in {4, 6, 9, 11} THEN 30 ELSE 31

\* date.__gt__
DateGreater(a, b) ==
  \/ a[1] > b[1]
  \/ a[1] = b[1] /\ a[2] > b[2]
  \/ a[1] = b[1] /\ a[2] = b[2] /\ a[3] > b[3]

Pad2(n) == << DigitChar(n \div 10), DigitChar(n % 10) >>

Pad4(n) ==
  << DigitChar(n \div 1000), DigitChar((n \div 100) % 10),
     DigitChar((n \div 10) % 10), DigitChar(n % 10) >>

\* str(date) is date.isoformat(): %04d-%02d-%02d
DateStr(d) == Pad4(d[1]) \o << "-" >> \o Pad2(d[2]) \o << "-" >> \o Pad2(d[3])

\* the value of a run of digits
RECURSIVE NumVal(_)
NumVal(s) ==
  IF s = << >> THEN 0
  ELSE 10 * NumVal(SubSeq(s, 1, Len(s) - 1)) + DigitVal(s[Len(s)])

At(s, i) == IF i \in 1 .. Len(s) THEN s[i] ELSE "$"

\* %m of the strptime pattern at position p: 1[0-2] | 0[1-9] | [1-9], and the
\* literal "-" of the format has to follow; 0 when no alternative matches
MonthLen(s, p) ==
  IF /\ \/ At(s, p) = "1" /\ At(s, p + 1) \in {"0", "1", "2"}
        \/ At(s, p) = "0" /\ At(s, p + 1) \in Digit \ {"0"}
     /\ At(s, p + 2) = "-"
  THEN 2
  ELSE IF At(s, p) \in Digit \ {"0"} /\ At(s, p + 1) = "-" THEN 1
  ELSE 0

\* %d of the strptime pattern at position p:
\* 3[01] | [12]\d | 0[1-9] | [1-9] | " "[1-9], the first alternative that matches
DayLen(s, p) ==
  IF \/ At(s, p) = "3" /\ At(s, p + 1) \in {"0", "1"}
     \/ At(s, p) \in {"1", "2"} /\ At(s, p + 1) \in Digit
     \/ At(s, p) = "0" /\ At(s, p + 1) \in Digit \ {"0"}
  THEN 2
  ELSE IF At(s, p) \in Digit \ {"0"} THEN 1
  ELSE IF At(s, p) = " " /\ At(s, p + 1) \in Digit \ {"0"} THEN 2
  ELSE 0

DayVal(s) == IF Head(s) = " " THEN NumVal(Tail(s)) ELSE NumVal(s)

NoDate == << 0, 0, 0 >>

\* datetime.strptime(s, "%Y-%m-%d"), which is _strptime_datetime of CPython:
\* [ok |-> FALSE] stands for ValueError
strptime_datetime(s) ==
  LET yearOk == /\ \A i \in 1 .. 4 : At(s, i) \in Digit
                /\ At(s, 5) = "-"
      ml     == MonthLen(s, 6)
      dp     == 6 + ml + 1
      dl     == DayLen(s, dp)
  IN  IF ~yearOk \/ ml = 0 \/ dl = 0
      THEN [ok |-> FALSE, date |-> NoDate]            \* does not match format
      ELSE IF dp + dl - 1 # Len(s)
      THEN [ok |-> FALSE, date |-> NoDate]            \* unconverted data remains
      ELSE LET y == NumVal(SubSeq(s, 1, 4))
               m == NumVal(SubSeq(s, 6, 5 + ml))
               d == DayVal(SubSeq(s, dp, dp + dl - 1))
           IN  IF y < 1 \/ d > DaysInMonth(y, m)
               THEN [ok |-> FALSE, date |-> NoDate]   \* out of range
               ELSE [ok |-> TRUE, date |-> << y, m, d >>]

\* date.today() of the run
Today == << 2025, 12, 21 >>
Todays == {Today, << 2025, 12, 5 >>}

\* the texts given as --date-deb and --date-fin
DateInputs ==
  { << "2", "0", "2", "5", "-", "1", "2", "-", "2", "1" >>,     \* 2025-12-21
    << "2", "0", "2", "5", "-", "1", "2", "-", "2", "2" >>,     \* 2025-12-22
    << "2", "0", "2", "5", "-", "1", "0", "-", "0", "1" >>,     \* 2025-10-01
    << "2", "0", "2", "5", "-", "9", "-", "0", "1" >>,          \* 2025-9-01
    << "2", "0", "2", "5", "-", "1", "3", "-", "0", "1" >>,     \* 2025-13-01
    << "2", "0", "2", "5", "-", "1", "2", "-", " ", "9" >>,     \* 2025-12- 9
    << "2", "1", "-", "1", "2", "-", "2", "0", "2", "5" >> }    \* 21-12-2025

\* the texts a run of main parses, parsed once
Parsed ==
  [s \in DateInputs \cup {DateStr(t) : t \in Todays} |-> strptime_datetime(s)]

strptime(s) == IF s \in DOMAIN Parsed THEN Parsed[s] ELSE strptime_datetime(s)

MidnightZ == << "T", "0", "0", ":", "0", "0", ":", "0", "0", "Z" >>

\* dt.strftime("%Y-%m-%dT00:00:00Z")
strftime(d) == DateStr(d) \o MidnightZ

\* Meteo.to_iso_midnight_z: [ok |-> FALSE] stands for the ValueError it raises
to_iso_midnight_z_Echo(date_str) ==
  IF strptime(date_str).ok THEN [ok |-> TRUE, text |-> date_str \o MidnightZ]
  ELSE [ok |-> FALSE, text |-> << >>]
to_iso_midnight_z_Unchecked(date_str) ==
  [ok |-> TRUE, text |-> date_str \o MidnightZ]
to_iso_midnight_z(date_str) ==
  LET dt == strptime(date_str)
  IN  IF dt.ok THEN [ok |-> TRUE, text |-> strftime(dt.date)]
      ELSE [ok |-> FALSE, text |-> << >>]

(***************************************************************************)
(* Station records and catalog files.                                      *)
(*                                                                         *)
(* A field of a JSON record is [k, v]: k = "num" for a value float()       *)
(* accepts (v whole degrees), "missing" for an absent key (KeyError) and   *)
(* "text" for a value float() rejects (TypeError, ValueError).             *)
(* posteOuvert is "true", "false" or "missing" (absent key).               *)
(***************************************************************************)
Num(v) == [k |-> "num", v |-> v]
Missing == [k |-> "missing", v |-> 0]
NotNumeric == [k |-> "text", v |-> 0]

Station(id, open, lat, lon) ==
  [id |-> id, posteOuvert |-> open, lat |-> lat, lon |-> lon]

\* Python's None where a station record is expected
NoStation == Station("None", "missing", Missing, Missing)

\* a file of departements/: absent, not JSON ("corrupt", an empty file included),
\* a JSON value that is no list ("object"), or a JSON list of station records
AbsentFile == [kind |-> "absent", data |-> << >>]
CorruptFile == [kind |-> "corrupt", data |-> << >>]
ObjectFile == [kind |-> "object", data |-> << >>]
ListFile(stations) == [kind |-> "list", data |-> stations]

\* Meteo._haversine_km on the grid lat 47..48, lon 0..1, in metres: the values
\* of R * 2 * atan2(sqrt(a), sqrt(1 - a)), R = 6371.0088, rounded to the metre
\* (equal distances in floating point are equal here, distinct ones distinct)
haversine_km(lat1, lon1, lat2, lon2) ==
  LET dlat == IF lat2 >= lat1 THEN lat2 - lat1 ELSE lat1 - lat2
      dlon == IF lon2 >= lon1 THEN lon2 - lon1 ELSE lon1 - lon2
  IN  CASE dlat = 0 /\ dlon = 0 -> 0
        [] dlat = 0 /\ dlon = 1 -> (IF lat1 = 47 THEN 75834 ELSE 74404)
        [] dlat = 1 /\ dlon = 0 -> 111195
        [] dlat = 1 /\ dlon = 1 -> 134190

(***************************************************************************)
(* _haversine_km computed step by step, over the whole coordinate domain,  *)
(* in fixed-point arithmetic: the number x stands for x / Scale, angles    *)
(* are in radians.  The precision is a few percent, against the metre of   *)
(* the table above; the steps and their order are those of the source.     *)
(***************************************************************************)
Scale == 10000
Pi == 31416

Abs(x) == IF x < 0 THEN -x ELSE x
Sgn(x) == IF x < 0 THEN -1 ELSE 1

\* quotient and product of two numbers, rounded towards zero
Quot(a, b) == Sgn(a) * Sgn(b) * (Abs(a) \div Abs(b))
Mul(a, b) == Quot(a * b, Scale)

\* math.radians: degrees times pi / 180
radians(deg) == Quot(deg * 17453, 100)

\* the series  t - t x2 / (n+1)(n+2) + ...  of sin (from n = 1) and cos (n = 0)
RECURSIVE Series(_, _, _, _)
Series(t, x2, n, acc) ==
  IF t = 0 THEN acc
  ELSE Series(-Quot(Mul(t, x2), (n + 1) * (n + 2)), x2, n + 2, acc + t)

\* math.sin for -pi <= x <= pi
sin(x) ==
  LET y == IF Abs(x) > Pi \div 2 THEN Sgn(x) * (Pi - Abs(x)) ELSE x
  IN  Series(y, Mul(y, y), 1, 0)

\* math.cos for -pi/2 <= x <= pi/2
cos(x) == Series(Scale, Mul(x, x), 0, 0)

\* the largest r between lo and hi with r * r <= n
RECURSIVE Root(_, _, _)
Root(n, lo, hi) ==
  IF lo >= hi THEN lo
  ELSE LET mid == (lo + hi + 1) \div 2
       IN  IF mid * mid <= n THEN Root(n, mid, hi) ELSE Root(n, lo, mid - 1)

\* math.sqrt of a number that stands for x / Scale^2
sqrt(x) == Root(x, 0, 2 * Scale)

\* math.atan for 0 <= t <= 1: the angle is halved twice, then the series
\* t - t^3 / 3 + t^5 / 5 - ...
RECURSIVE AtanSeries(_, _, _, _)
AtanSeries(p, t2, n, acc) ==
  IF p = 0 THEN acc
  ELSE AtanSeries(-Mul(p, t2), t2, n + 2, acc + Quot(p, n))

Halve(t) == Quot(t * Scale, Scale + sqrt(Scale * Scale + t * t))

atan(t) ==
  LET h == Halve(Halve(t))
  IN  4 * AtanSeries(h, Mul(h, h), 1, 0)

\* math.atan2 for y >= 0 and x >= 0, not both 0
atan2(y, x) ==
  IF y = 0 THEN 0
  ELSE IF x = 0 THEN Pi \div 2
  ELSE IF y <= x THEN atan(Quot(y * Scale, x))
  ELSE Pi \div 2 - atan(Quot(x * Scale, y))

\* R = 6371.0088 km, in units of 100 m
R == 63710

\* Meteo._haversine_km, lines 285-293, in metres;  a  stands for a / Scale^2
haversine_formula_SumLat(lat1, lon1, lat2, lon2) ==
  LET phi1 == radians(lat1)
      phi2 == radians(lat2)
      dphi == radians(lat2 + lat1)
      dlambda == radians(lon2 - lon1)
      s1 == sin(Quot(dphi, 2))
      s2 == sin(Quot(dlambda, 2))
      a == s1 * s1 + Quot(Mul(cos(phi1), cos(phi2)) * Quot(s2 * s2, 1000), 10)
      c == 2 * atan2(sqrt(a), sqrt(Scale * Scale - a))
  IN  Quot(R * c, 100)
haversine_formula(lat1, lon1, lat2, lon2) ==
  LET phi1 == radians(lat1)
      phi2 == radians(lat2)
      dphi == radians(lat2 - lat1)
      dlambda == radians(lon2 - lon1)
      s1 == sin(Quot(dphi, 2))
      s2 == sin(Quot(dlambda, 2))
      a == s1 * s1 + Quot(Mul(cos(phi1), cos(phi2)) * Quot(s2 * s2, 1000), 10)
      c == 2 * atan2(sqrt(a), sqrt(Scale * Scale - a))
  IN  Quot(R * c, 100)

\* line 313:  if not st['posteOuvert']: continue   (the key is known present)
SkipClosed_Never(st) == FALSE
SkipClosed(st) == st.posteOuvert = "false"

\* lines 315-319: float(st["lat"]), float(st["lon"]) raise KeyError, TypeError or
\* ValueError, and the record is skipped
SkipUnlocated(st) == st.lat.k # "num" \/ st.lon.k # "num"

\* line 322:  if best_dist is None or d < best_dist    (best_dist -1 is None)
Closer(d, best_dist) == best_dist = -1 \/ d < best_dist

\* the loop of find_nearest_station, lines 309-324, from record i on
RECURSIVE ScanStations(_, _, _, _, _)
ScanStations(stations, i, city_lat, city_lon, acc) ==
  IF i > Len(stations) THEN acc
  ELSE
    LET st == stations[i]
    IN  IF st.posteOuvert = "missing"
        THEN [acc EXCEPT !.raised = "KeyError"]
        ELSE IF SkipClosed(st) \/ SkipUnlocated(st)
        THEN ScanStations(stations, i + 1, city_lat, city_lon, acc)
        ELSE
          LET d == haversine_km(city_lat, city_lon, st.lat.v, st.lon.v)
          IN  IF Closer(d, acc.best_dist)
              THEN ScanStations(stations, i + 1, city_lat, city_lon,
                                [acc EXCEPT !.best_dist = d, !.nearest = st])
              ELSE ScanStations(stations, i + 1, city_lat, city_lon, acc)

\* Meteo.load_stations_from_file: "" or the exception open()/json.load raise
load_stations_from_file(file) ==
  CASE file.kind = "absent" -> "FileNotFoundError"
    [] file.kind = "corrupt" -> "JSONDecodeError"
    [] OTHER -> ""

\* Meteo.find_nearest_station: what it raises ("" when it returns), the pair it
\* returns and the value it leaves in self.NEAREST_STATION_ID
find_nearest_station_FirstId(city_lat, city_lon, file, station_id) ==
  LET none == [raised |-> "", nearest |-> NoStation, best_dist |-> -1,
               NEAREST_STATION_ID |-> station_id]
      acc == ScanStations(file.data, 1, city_lat, city_lon, none)
  IN  IF load_stations_from_file(file) # ""
      THEN [none EXCEPT !.raised = load_stations_from_file(file)]
      ELSE IF file.kind = "object" \/ file.data = << >>
      THEN [none EXCEPT !.raised = "TypeError"]
      ELSE IF acc.raised # "" THEN acc
      ELSE [acc EXCEPT !.NEAREST_STATION_ID = file.data[1].id]
find_nearest_station(city_lat, city_lon, file, station_id) ==
  LET none == [raised |-> "", nearest |-> NoStation, best_dist |-> -1,
               NEAREST_STATION_ID |-> station_id]
  IN  IF load_stations_from_file(file) # ""
      THEN [none EXCEPT !.raised = load_stations_from_file(file)]
      ELSE IF file.kind = "object"
      \* iterating a dict yields its keys, and  key['posteOuvert']  is a
      \* TypeError; an empty dict leaves nearest None, a TypeError at line 326
      THEN [none EXCEPT !.raised = "TypeError"]
      ELSE
        LET acc == ScanStations(file.data, 1, city_lat, city_lon, none)
        IN  IF acc.raised # "" THEN acc
            ELSE IF acc.nearest = NoStation
            THEN [acc EXCEPT !.raised = "TypeError"]     \* None['id'], line 326
            ELSE [acc EXCEPT !.NEAREST_STATION_ID = acc.nearest.id]

(***************************************************************************)
(* Command line, inputs file and the world around one run of main().       *)
(***************************************************************************)
\* a Python value that is None, a str or a datetime.date
ArgNone == [t |-> "none", s |-> << >>, d |-> NoDate]
ArgStr(s) == [t |-> "str", s |-> s, d |-> NoDate]
ArgDate(d) == [t |-> "date", s |-> << >>, d |-> d]

ArgSets ==
  [api_url : BOOLEAN, api_key : BOOLEAN, date_deb : DateInputs,
   date_fin : {ArgNone} \cup {ArgStr(s) : s \in DateInputs}, force : BOOLEAN]

DefaultArgs ==
  [api_url |-> TRUE, api_key |-> TRUE,
   date_deb |-> << "2", "0", "2", "5", "-", "1", "0", "-", "0", "1" >>,
   date_fin |-> ArgNone, force |-> FALSE]

Regions == {"49", "19"}

\* the records of the inputs file: departement "None" is an absent key
City(name, departement, force) ==
  [name |-> name, departement |-> departement, force |-> force]

CityPool ==
  { City("Angers", "49", FALSE), City("Angers", "49", TRUE),
    City("Beaulieu", "19", FALSE), City("Nulle", "None", FALSE) }

CityNames == {c.name : c \in CityPool}

Batches == UNION {[1 .. n -> CityPool] : n \in 0 .. MaxCities}

\* the inputs file: absent, a JSON value that is no list, or a list of records
Inputs ==
  {[kind |-> "absent", data |-> << >>], [kind |-> "notlist", data |-> << >>]}
    \cup {[kind |-> "list", data |-> b] : b \in Batches}

\* where the geocoding provider places a city, when it finds it
CityLocation(name) ==
  CASE name = "Angers" -> [lat |-> 47, lon |-> 0]
    [] name = "Beaulieu" -> [lat |-> 48, lon |-> 1]
    [] OTHER -> [lat |-> 47, lon |-> 1]

St49Far == Station("49001", "true", Num(48), Num(1))
St49Closed == Station("49002", "false", Num(47), Num(0))
St49Near == Station("49003", "true", Num(47), Num(1))
St19 == Station("19001", "true", Num(48), Num(0))

\* what the station-directory provider answers for each region
Directories ==
  { [r \in Regions |->
       IF r = "49" THEN ListFile(<< St49Closed, St49Far, St49Near >>)
       ELSE ListFile(<< St19 >>)],
    [r \in Regions |-> IF r = "49" THEN ListFile(<< >>) ELSE ObjectFile] }

\* the departements/ directory as the run finds it
Caches ==
  { [r \in Regions |-> AbsentFile],
    [r \in Regions |-> IF r = "49" THEN ListFile(<< St49Far >>) ELSE AbsentFile],
    [r \in Regions |-> IF r = "49" THEN CorruptFile ELSE ListFile(<< >>)],
    [r \in Regions |-> IF r = "49" THEN ListFile(<< St49Far >>) ELSE ObjectFile] }

\* the identifiers the provider assigns to the orders it accepts, in order
OrderIds == << "cmde1", "cmde2", "cmde3", "cmde4" >>

NoOutput == [exists |-> FALSE, order |-> "None"]
Output(order) == [exists |-> TRUE, order |-> order]

\* outcomes of one HTTP request: a 2xx answer (with what its body holds), an
\* error status, a TLS failure, a timeout or connection failure
ListAnswers == {"ok", "notjson", "http", "ssl", "transport"}
CommandAnswers ==
  {"ok_id", "ok_noid", "ok_notdict", "notjson", "http", "ssl", "transport"}
FileAnswers == {"ok", "http", "ssl", "transport"}
\* outcomes of one call of the rate-limited geocode: a location, None, an exception
GeoAnswers == {"found", "none", "error"}

Request(api, rec, arg, deb, fin) ==
  [api |-> api, rec |-> rec, arg |-> arg, deb |-> deb, fin |-> fin]

\* the error statuses the providers answer with
HttpErrors == {404, 500}

StatusText(status) ==
  CASE status = 200 -> "200" [] status = 404 -> "404" [] status = 500 -> "500"
    [] OTHER -> ""

\* an answer as the request log keeps it: status 0 when no HTTP response came
Response(kind, status, body) == [kind |-> kind, status |-> status, body |-> body]

ErrorBody(status) == IF status = 404 THEN "not found" ELSE "server error"

\* the response behind an outcome of ListAnswers, CommandAnswers or FileAnswers
ResponseTo(answer, status) ==
  CASE answer = "http" -> Response(answer, status, ErrorBody(status))
    [] answer \in {"ssl", "transport"} -> Response(answer, 0, "")
    [] OTHER -> Response(answer, 200, "")

\* the response to an order submission: the identifier the provider assigns is
\* the field elaboreProduitAvecDemandeResponse.return of the body
CommandResponse(answer, status, assigned) ==
  IF answer = "ok_id" THEN Response(answer, 200, assigned)
  ELSE ResponseTo(answer, status)

\* the response to a file request: the content the provider produced for the
\* order asked for, named by that order
FileResponse(answer, status, id_cmde) ==
  IF answer = "ok" THEN Response(answer, 200, id_cmde)
  ELSE ResponseTo(answer, status)

\* requests.Response.__bool__ is Response.ok: false for a 4xx or 5xx status
ResponseBool(response) == response.status < 400

\* an exception as  {e}  formats it: raise_for_status puts the status code in
\* the text of its HTTPError
Exc(name, response) ==
  [name |-> name,
   text |-> IF name = "HTTPError" THEN StatusText(response.status) ELSE ""]

\* what a failure handler prints on stderr: the fixed head of the message, the
\* exception e formatted into it, and for "Erreur HTTP" the  status  and  content
\* the handler computes from e.response
Message(head, e, status, content) ==
  [head |-> head, e |-> e, status |-> status, content |-> content]
NoMessage == Message("", [name |-> "", text |-> ""], "", "")

(***************************************************************************)
(* main(), lines 22-85: parse_args, the checks before the Meteo object.    *)
(***************************************************************************)
Prologue(goto, code, e, deb, fin) ==
  [pc |-> goto, code |-> code, exc |-> e, date_deb |-> deb, date_fin |-> fin]

main_prologue_KeepsEnd(a, today) ==
  LET given == a.date_fin.t = "str"
      parsed == strptime(a.date_fin.s)
      fin == IF ~given THEN ArgStr(DateStr(today)) ELSE ArgStr(a.date_fin.s)
      stop(goto, code, e) == Prologue(goto, code, e, ArgNone, ArgNone)
  IN  IF given /\ ~parsed.ok THEN stop("exit", 2, "")
      ELSE IF ~a.api_url THEN stop("exit", 2, "")
      ELSE IF ~a.api_key THEN stop("exit", 3, "")
      ELSE IF ~strptime(a.date_deb).ok THEN stop("exit", 4, "")
      ELSE IF StrGreater(a.date_deb, fin.s) THEN stop("exit", 5, "")
      ELSE Prologue("ok", 0, "", ArgStr(a.date_deb), fin)
main_prologue(a, today) ==
  LET given == a.date_fin.t = "str"
      parsed == strptime(a.date_fin.s)                   \* parse_date, line 15
      fin == IF ~given THEN ArgStr(DateStr(today))                 \* line 54
             ELSE IF DateGreater(parsed.date, today)
             THEN ArgStr(DateStr(today))                           \* line 57
             ELSE ArgDate(parsed.date)
      stop(goto, code, e) == Prologue(goto, code, e, ArgNone, ArgNone)
  IN  IF given /\ ~parsed.ok THEN stop("exit", 2, "")    \* ArgumentTypeError
      ELSE IF ~a.api_url THEN stop("exit", 2, "")
      ELSE IF ~a.api_key THEN stop("exit", 3, "")
      ELSE IF ~strptime(a.date_deb).ok THEN stop("exit", 4, "")
      \* strptime() argument 1 must be str, not datetime.date
      ELSE IF fin.t = "date" THEN stop("crash", 1, "TypeError")
      ELSE IF ~strptime(fin.s).ok THEN stop("exit", 4, "")
      ELSE IF StrGreater(a.date_deb, fin.s) THEN stop("exit", 5, "")
      ELSE Prologue("ok", 0, "", ArgStr(a.date_deb), fin)

\* Meteo.__init__: NEAREST_STATION_ID and API_COMMAND_ID are not attributes yet
NewMeteo(date_deb, date_fin, force) ==
  [API_DATE_DEB |-> date_deb, API_DATE_FIN |-> date_fin, API_FORCE |-> force,
   NEAREST_STATION_ID |-> "unset", API_COMMAND_ID |-> "unset"]

(***************************************************************************)
(* The methods of Meteo, as functions of their inputs and of the answer    *)
(* the remote service gives to the request they send.                      *)
(***************************************************************************)
\* Meteo._should_write_json
should_write_json_AnyList(file) == file.kind # "list"
should_write_json_AbsentOnly(file) == file.kind = "absent"
should_write_json(file) ==
  IF file.kind = "absent" THEN TRUE
  ELSE IF file.kind = "corrupt" THEN TRUE                  \* JSONDecodeError
  ELSE ~(file.kind = "list" /\ Len(file.data) > 0)

\* Meteo.call_api_list: what it raises ("" when it returns), whether the request
\* went out, and the decoded body
call_api_list_Unchecked(departement, answer, provided) ==
  [raised |-> CASE answer = "ok" -> ""
                [] answer = "notjson" -> "ValueError"
                [] answer = "http" -> "HTTPError"
                [] answer = "ssl" -> "SSLError"
                [] answer = "transport" -> "RequestException",
   sent |-> TRUE,
   data |-> IF answer = "ok" THEN provided ELSE AbsentFile]
call_api_list(departement, answer, provided) ==
  IF departement = "None"
  THEN [raised |-> "RuntimeError", sent |-> FALSE, data |-> AbsentFile]
  ELSE [raised |-> CASE answer = "ok" -> ""
                     [] answer = "notjson" -> "ValueError"
                     [] answer = "http" -> "HTTPError"
                     [] answer = "ssl" -> "SSLError"
                     [] answer = "transport" -> "RequestException",
        sent |-> TRUE,
        data |-> IF answer = "ok" THEN provided ELSE AbsentFile]

\* Meteo.write_stations_by_departement: the sys.exit code (0: it returns),
\* whether a request went out, and the cache file it leaves
write_stations_by_departement_AlwaysWrites(departement, force, api_force, file, answer, provided) ==
  LET r == call_api_list(departement, answer, provided)
  IN  IF r.raised = "HTTPError"
      THEN [exit |-> 3, raised |-> r.raised, sent |-> r.sent, file |-> file]
      ELSE IF r.raised # ""
      THEN [exit |-> 4, raised |-> r.raised, sent |-> r.sent, file |-> file]
      ELSE [exit |-> 0, raised |-> "", sent |-> r.sent, file |-> r.data]
write_stations_by_departement_Skips(departement, force, api_force, file, answer, provided) ==
  LET r == call_api_list(departement, answer, provided)
  IN  [exit |-> 0, raised |-> "", sent |-> r.sent,
       file |-> IF r.raised = "" /\ (should_write_json(file) \/ api_force \/ force)
                THEN r.data ELSE file]
write_stations_by_departement(departement, force, api_force, file, answer, provided) ==
  LET r == call_api_list(departement, answer, provided)
  IN  IF r.raised = "HTTPError"
      THEN [exit |-> 3, raised |-> r.raised, sent |-> r.sent, file |-> file]
      ELSE IF r.raised # ""
      THEN [exit |-> 4, raised |-> r.raised, sent |-> r.sent, file |-> file]
      ELSE [exit |-> 0, raised |-> "", sent |-> r.sent,
            file |-> IF should_write_json(file) \/ api_force \/ force
                     THEN r.data ELSE file]

\* the except clauses of write_stations_by_departement, lines 151-156: what is
\* printed on stderr before sys.exit
write_stations_stderr(raised, response) ==
  IF raised = "HTTPError"
  THEN Message("Erreur HTTP:", Exc(raised, response), "", "")
  ELSE Message("Erreur:", Exc(raised, response), "", "")

\* one pass of   try: loc = geocode(q) ... if loc: return ... except Exception: continue
Attempt_Propagates(answer) ==
  CASE answer = "found" -> "return" [] answer = "none" -> "next"
    [] answer = "error" -> "raise"
Attempt(answer) ==
  CASE answer = "found" -> "return" [] answer = "none" -> "next"
    [] answer = "error" -> "next"

\* the answers to direct_queries of Meteo.geocode_city_with_county, in order
MeteoDirectQueries == << "structured" >>

\* Meteo.geocode_city_with_county, given the answer to its one direct query:
\* "location", "None", or "raise"
geocode_city_with_county(answer) ==
  CASE Attempt(answer) = "return" -> "location"
    [] Attempt(answer) = "next" -> "None"         \* line 278, no fallback left
    [] OTHER -> "raise"

\* Meteo.call_api_command: what it raises, whether the request went out, the
\* period it sends and the value it leaves in self.API_COMMAND_ID
call_api_command_KeepsId(m, answer, assigned) ==
  LET deb == to_iso_midnight_z(m.API_DATE_DEB.s)
      fin == to_iso_midnight_z(m.API_DATE_FIN.s)
      out(e, sent, id) ==
        [raised |-> e, sent |-> sent, deb |-> deb.text, fin |-> fin.text,
         API_COMMAND_ID |-> id]
  IN  IF m.NEAREST_STATION_ID = "unset"
      THEN out("AttributeError", FALSE, m.API_COMMAND_ID)
      ELSE IF m.API_DATE_DEB.t # "str" THEN out("TypeError", FALSE, m.API_COMMAND_ID)
      ELSE IF ~deb.ok THEN out("ValueError", FALSE, m.API_COMMAND_ID)
      ELSE IF m.API_DATE_FIN.t # "str" THEN out("TypeError", FALSE, m.API_COMMAND_ID)
      ELSE IF ~fin.ok THEN out("ValueError", FALSE, m.API_COMMAND_ID)
      ELSE CASE answer = "ok_id" -> out("", TRUE, assigned)
             [] answer = "ok_noid" -> out("", TRUE, m.API_COMMAND_ID)
             \* a body that is no JSON object: .get is an AttributeError
             [] answer = "ok_notdict" -> out("AttributeError", TRUE, m.API_COMMAND_ID)
             [] answer = "notjson" -> out("ValueError", TRUE, m.API_COMMAND_ID)
             [] answer = "http" -> out("HTTPError", TRUE, m.API_COMMAND_ID)
             [] answer = "ssl" -> out("SSLError", TRUE, m.API_COMMAND_ID)
             [] answer = "transport" -> out("RequestException", TRUE, m.API_COMMAND_ID)
call_api_command(m, answer, assigned) ==
  LET deb == to_iso_midnight_z(m.API_DATE_DEB.s)
      fin == to_iso_midnight_z(m.API_DATE_FIN.s)
      out(e, sent, id) ==
        [raised |-> e, sent |-> sent, deb |-> deb.text, fin |-> fin.text,
         API_COMMAND_ID |-> id]
  IN  IF m.NEAREST_STATION_ID = "unset"
      THEN out("AttributeError", FALSE, m.API_COMMAND_ID)
      ELSE IF m.API_DATE_DEB.t # "str" THEN out("TypeError", FALSE, m.API_COMMAND_ID)
      ELSE IF ~deb.ok THEN out("ValueError", FALSE, m.API_COMMAND_ID)
      ELSE IF m.API_DATE_FIN.t # "str" THEN out("TypeError", FALSE, m.API_COMMAND_ID)
      ELSE IF ~fin.ok THEN out("ValueError", FALSE, m.API_COMMAND_ID)
      ELSE CASE answer = "ok_id" -> out("", TRUE, assigned)
             [] answer = "ok_noid" -> out("", TRUE, "None")
             \* a body that is no JSON object: .get is an AttributeError
             [] answer = "ok_notdict" -> out("AttributeError", TRUE, m.API_COMMAND_ID)
             [] answer = "notjson" -> out("ValueError", TRUE, m.API_COMMAND_ID)
             [] answer = "http" -> out("HTTPError", TRUE, m.API_COMMAND_ID)
             [] answer = "ssl" -> out("SSLError", TRUE, m.API_COMMAND_ID)
             [] answer = "transport" -> out("RequestException", TRUE, m.API_COMMAND_ID)

\* the except clauses of Meteo.send_command_station, in order: the sys.exit code,
\* 0 when it returns, -1 when the exception is not caught
send_command_station_Swallows(raised) ==
  CASE raised \in {"", "SSLError", "HTTPError", "RequestException", "ValueError"} -> 0
    [] OTHER -> -1
send_command_station_RequestOnly(raised) ==
  CASE raised = "" -> 0
    [] raised = "SSLError" -> 6
    [] raised = "HTTPError" -> 3
    [] raised = "RequestException" -> 4
    [] OTHER -> -1
send_command_station_GenericFirst(raised) ==
  CASE raised = "" -> 0
    [] raised \in {"RequestException", "ValueError", "SSLError", "HTTPError"} -> 4
    [] OTHER -> -1
send_command_station(raised) ==
  CASE raised = "" -> 0
    [] raised = "SSLError" -> 6
    [] raised = "HTTPError" -> 3
    [] raised \in {"RequestException", "ValueError"} -> 4
    [] OTHER -> -1

\* what the except clauses of send_command_station print on stderr, lines
\* 343-355;  e.response  is tested for truth before its status and text are read
send_command_station_stderr(raised, response) ==
  CASE raised = "SSLError" -> Message("Erreur SSL/TLS", Exc(raised, response), "", "")
    [] raised = "HTTPError" ->
         Message("Erreur HTTP", Exc(raised, response),
                 IF ResponseBool(response) THEN StatusText(response.status) ELSE "N/A",
                 IF ResponseBool(response) THEN response.body ELSE "")
    [] raised \in {"RequestException", "ValueError"} ->
         Message("Erreur de requête:", Exc(raised, response), "", "")
    [] OTHER -> NoMessage

\* Meteo.call_api_download_file: what it raises, whether the request went out,
\* the id-cmde it sends and the file cities/<city>.csv it leaves
call_api_download_file_WritesFirst(m, file, answer) ==
  LET out(e, sent, f) ==
        [raised |-> e, sent |-> sent, id_cmde |-> m.API_COMMAND_ID, file |-> f]
  IN  IF m.API_COMMAND_ID = "unset" THEN out("AttributeError", FALSE, file)
      ELSE CASE answer = "ok" -> out("", TRUE, Output(m.API_COMMAND_ID))
             [] answer = "http" -> out("HTTPError", TRUE, Output("error body"))
             [] answer = "ssl" -> out("SSLError", TRUE, file)
             [] answer = "transport" -> out("RequestException", TRUE, file)
call_api_download_file_Quiet(m, file, answer) ==
  LET out(e, sent, f) ==
        [raised |-> e, sent |-> sent, id_cmde |-> m.API_COMMAND_ID, file |-> f]
  IN  IF m.API_COMMAND_ID = "unset" THEN out("AttributeError", FALSE, file)
      ELSE IF answer = "ok" THEN out("", TRUE, Output(m.API_COMMAND_ID))
      ELSE out("", TRUE, file)
call_api_download_file(m, file, answer) ==
  LET out(e, sent, f) ==
        [raised |-> e, sent |-> sent, id_cmde |-> m.API_COMMAND_ID, file |-> f]
  IN  IF m.API_COMMAND_ID = "unset" THEN out("AttributeError", FALSE, file)
      ELSE CASE answer = "ok" -> out("", TRUE, Output(m.API_COMMAND_ID))
             [] answer = "http" -> out("HTTPError", TRUE, file)
             [] answer = "ssl" -> out("SSLError", TRUE, file)
             [] answer = "transport" -> out("RequestException", TRUE, file)

(***************************************************************************)
(* State.                                                                  *)
(***************************************************************************)
VARIABLES
  pc,               \* where the run stands: "start", a step of the loop of main
                    \* ("write_stations", "geocode", "nearest", "send",
                    \* "download", "excel"), "done", "exit" (sys.exit), "crash"
  exitCode,         \* the code given to sys.exit, 1 after an uncaught exception
  exc,              \* the exception that ended the run, "" if none
  args,             \* the command line
  inputs,           \* the inputs file
  directory,        \* the station-directory provider's data, by region
  meteo,            \* the fields of the Meteo object
  idx,              \* the record of the batch the loop is at (1-based)
  result,           \* main's  result  of geocode_city_with_county
  nearest,          \* main's  nearest  of find_nearest_station
  departements,     \* the files departements/<region>.json
  cities_csv,       \* the files cities/<city>.csv
  requests,         \* every HTTP request sent so far, oldest first
  orders,           \* how many orders the climate-data provider has accepted
  excel_col_index,  \* main's column counter
  geo,              \* the geocoding resolver taken alone (see below)
  today,            \* date.today() of the run
  responses,        \* the answer given to each request of  requests, same order
  stderr,           \* the last failure message a Meteo method printed on stderr
  call              \* a method of Meteo called on its own: its arguments and
                    \* what it returned or raised (see the end of the model)

vars ==
  << pc, exitCode, exc, args, inputs, directory, meteo, idx, result, nearest,
     departements, cities_csv, requests, orders, excel_col_index, geo, today,
     responses, stderr, call >>

world == << args, inputs, directory, today, call >>

NoResult == [found |-> FALSE, lat |-> 0, lon |-> 0]
\* no method is called on its own
NoCall == [fn |-> "none", arg |-> << >>, out |-> << >>, done |-> FALSE]
NoNearest == [station |-> NoStation, best_dist |-> -1]
\* the resolver is not run on its own
GeoOff ==
  [resolver |-> "off", pc |-> "idle", n |-> 0, loc |-> 0,
   oracle |-> [directAt |-> 0, bboxAt |-> 0, bounded |-> "none"],
   bbox |-> FALSE, result |-> "pending", swallowed |-> FALSE, log |-> << >>,
   since |-> [l \in {"outer", "dept"} |-> -1], last |-> -1, lastGap |-> -1]

Goto(p) == pc' = p /\ UNCHANGED << exitCode, exc, stderr >>
ExitSaying_Retries(code, message) ==
  pc' = pc /\ exitCode' = exitCode /\ exc' = exc /\ stderr' = message
ExitSaying(code, message) ==
  pc' = "exit" /\ exitCode' = code /\ exc' = exc /\ stderr' = message
Exit(code) == ExitSaying(code, stderr)
Crash(e) == pc' = "crash" /\ exitCode' = 1 /\ exc' = e /\ stderr' = stderr

\* the record the loop is at
city == inputs.data[idx]

(***************************************************************************)
(* main(): one action per step of the run.                                 *)
(***************************************************************************)
\* lines 22-109: the command line, the Meteo object, the inputs file
MainStart ==
  /\ pc = "start"
  /\ \E v \in {main_prologue(args, today)} :
         IF v.pc = "exit" THEN Exit(v.code) /\ UNCHANGED << meteo, idx >>
         ELSE IF v.pc = "crash" THEN Crash(v.exc) /\ UNCHANGED << meteo, idx >>
         ELSE /\ meteo' = NewMeteo(v.date_deb, v.date_fin, args.force)
              /\ IF inputs.kind = "absent"
                 THEN Crash("RuntimeError") /\ idx' = idx
                 ELSE IF inputs.kind = "notlist"
                 THEN Crash("ValueError") /\ idx' = idx
                 ELSE IF inputs.data = << >>
                 THEN Goto("done") /\ idx' = idx
                 ELSE Goto("write_stations") /\ idx' = 1
  /\ UNCHANGED << world, result, nearest, departements, cities_csv, requests,
                  orders, excel_col_index, geo, responses >>

\* line 129: meteo.write_stations_by_departement(...)
StepWriteStations ==
  /\ pc = "write_stations"
  /\ \E answer \in ListAnswers, status \in HttpErrors :
     \E r \in {write_stations_by_departement(
                 city.departement, city.force, meteo.API_FORCE,
                 IF city.departement \in Regions
                 THEN departements[city.departement] ELSE AbsentFile,
                 answer,
                 IF city.departement \in Regions
                 THEN directory[city.departement] ELSE AbsentFile)} :
       LET dep == city.departement
           response == ResponseTo(answer, status)
       IN  /\ requests' = IF r.sent
                          THEN Append(requests,
                                      Request("liste-stations", idx, dep, << >>, << >>))
                          ELSE requests
           /\ responses' = IF r.sent THEN Append(responses, response) ELSE responses
           /\ departements' = IF dep \in Regions
                              THEN [departements EXCEPT ![dep] = r.file]
                              ELSE departements
           /\ IF r.exit # 0
              THEN ExitSaying(r.exit, write_stations_stderr(r.raised, response))
              ELSE Goto("geocode")
  /\ UNCHANGED << world, meteo, idx, result, nearest, cities_csv, orders,
                  excel_col_index, geo >>

\* lines 131-135: geocode_city_with_county, sys.exit(1) when it returns None
StepGeocode ==
  /\ pc = "geocode"
  /\ \E answer \in GeoAnswers :
       LET r == geocode_city_with_county(answer)
       IN  /\ requests' = Append(requests,
                                 Request("geocode", idx, city.name, << >>, << >>))
           /\ responses' = Append(responses, Response(answer, 0, ""))
           /\ IF r = "location"
              THEN /\ result' = [found |-> TRUE,
                                 lat |-> CityLocation(city.name).lat,
                                 lon |-> CityLocation(city.name).lon]
                   /\ Goto("nearest")
              ELSE IF r = "None"
              THEN result' = NoResult /\ Exit(1)
              ELSE result' = result /\ Crash("Exception")
  /\ UNCHANGED << world, meteo, idx, nearest, departements, cities_csv, orders,
                  excel_col_index, geo >>

\* line 145: nearest = meteo.find_nearest_station(lat, lon, city_departement)
StepNearest ==
  /\ pc = "nearest"
  /\ \E r \in {find_nearest_station(result.lat, result.lon,
                                     departements[city.departement],
                                     meteo.NEAREST_STATION_ID)} :
         IF r.raised # ""
         THEN Crash(r.raised) /\ UNCHANGED << meteo, nearest >>
         ELSE /\ meteo' = [meteo EXCEPT !.NEAREST_STATION_ID = r.NEAREST_STATION_ID]
              /\ nearest' = [station |-> r.nearest, best_dist |-> r.best_dist]
              /\ Goto("send")
  /\ UNCHANGED << world, idx, result, departements, cities_csv, requests, orders,
                  excel_col_index, geo, responses >>

\* line 148: meteo.send_command_station()
StepSend ==
  /\ pc = "send"
  /\ \E answer \in CommandAnswers, status \in HttpErrors :
     \E r \in {call_api_command(meteo, answer, OrderIds[orders + 1])} :
       LET response == CommandResponse(answer, status, OrderIds[orders + 1])
           code == send_command_station(r.raised)
       IN  /\ requests' = IF r.sent
                          THEN Append(requests,
                                      Request("commande-station", idx,
                                              meteo.NEAREST_STATION_ID, r.deb, r.fin))
                          ELSE requests
           /\ responses' = IF r.sent THEN Append(responses, response) ELSE responses
           /\ orders' = IF answer = "ok_id" /\ r.sent THEN orders + 1 ELSE orders
           /\ meteo' = [meteo EXCEPT !.API_COMMAND_ID = r.API_COMMAND_ID]
           /\ IF code = 0 THEN Goto("download")
              ELSE IF code = -1 THEN Crash(r.raised)
              ELSE ExitSaying(code, send_command_station_stderr(r.raised, response))
  /\ UNCHANGED << world, idx, result, nearest, departements, cities_csv,
                  excel_col_index, geo >>

\* line 149: meteo.get_and_download_file(city_name)
StepDownload ==
  /\ pc = "download"
  /\ \E answer \in FileAnswers, status \in HttpErrors :
     \E r \in {call_api_download_file(meteo, cities_csv[city.name], answer)} :
           /\ requests' = IF r.sent
                          THEN Append(requests,
                                      Request("commande/fichier", idx, r.id_cmde,
                                              << >>, << >>))
                          ELSE requests
           /\ responses' = IF r.sent
                           THEN Append(responses,
                                       FileResponse(answer, status, r.id_cmde))
                           ELSE responses
           /\ cities_csv' = [cities_csv EXCEPT ![city.name] = r.file]
           /\ IF r.raised = "" THEN Goto("excel") ELSE Crash(r.raised)
  /\ UNCHANGED << world, meteo, idx, result, nearest, departements, orders,
                  excel_col_index, geo >>

StepExcel_SameRecord ==
  /\ pc = "excel"
  /\ \E ok \in BOOLEAN :
       IF ok
       THEN /\ excel_col_index' = excel_col_index + 1
            /\ idx' = idx /\ Goto("write_stations")
       ELSE Crash("Exception") /\ UNCHANGED << idx, excel_col_index >>
  /\ UNCHANGED << world, meteo, result, nearest, departements, cities_csv,
                  requests, orders, geo, responses >>
\* lines 151-162: set_excel, then the next record.  Reading the CSV and driving
\* Excel either works or raises.
StepExcel ==
  /\ pc = "excel"
  /\ \E ok \in BOOLEAN :
       IF ok
       THEN /\ excel_col_index' = excel_col_index + 1
            /\ IF idx < Len(inputs.data)
               THEN idx' = idx + 1 /\ Goto("write_stations")
               ELSE idx' = idx /\ Goto("done")
       ELSE Crash("Exception") /\ UNCHANGED << idx, excel_col_index >>
  /\ UNCHANGED << world, meteo, result, nearest, departements, cities_csv,
                  requests, orders, geo, responses >>

NextMain ==
  \/ MainStart
  \/ StepWriteStations
  \/ StepGeocode
  \/ StepNearest
  \/ StepSend
  \/ StepDownload
  \/ StepExcel

DefaultInputs ==
  [kind |-> "list", data |-> << City("Angers", "49", FALSE) >>]
DefaultDirectory == CHOOSE d \in Directories : d["19"].kind = "list"
DefaultCache == [r \in Regions |-> AbsentFile]

\* a run of main(): every command line on one record, and every inputs file,
\* directory and cache under a command line that passes the checks
InitMain ==
  /\ pc = "start" /\ exitCode = 0 /\ exc = ""
  /\ \/ /\ args \in ArgSets
        /\ today \in Todays
        /\ inputs = DefaultInputs
        /\ directory = DefaultDirectory
        /\ departements = DefaultCache
     \/ /\ args \in {[DefaultArgs EXCEPT !.force = f] : f \in BOOLEAN}
        /\ today = Today
        /\ inputs \in Inputs
        /\ directory \in Directories
        /\ departements \in Caches
  /\ meteo = NewMeteo(ArgNone, ArgNone, FALSE)
  /\ idx = 0 /\ result = NoResult /\ nearest = NoNearest
  /\ cities_csv = [n \in CityNames |-> NoOutput]
  /\ requests = << >> /\ orders = 0 /\ excel_col_index = 1
  /\ geo = GeoOff
  /\ responses = << >> /\ stderr = NoMessage
  /\ call = NoCall

Spec == InitMain /\ [][NextMain]_vars

\* the same runs, with the scheduling of the program: main is one thread of
\* blocking calls, each of which returns or raises (the HTTP requests carry a
\* timeout), so a run that can take its next step takes it
FairSpec == Spec /\ WF_vars(NextMain)

(***************************************************************************)
(* find_nearest_station on every catalog: the run stands at line 145 with  *)
(* any list of at most MaxStations records in the cache file of the        *)
(* record's region and any point of the grid as the geocoded location.     *)
(***************************************************************************)
StationPool ==
  { Station("A", "true", Num(47), Num(0)),
    Station("B", "true", Num(47), Num(0)),
    Station("C", "false", Num(47), Num(0)),
    Station("D", "true", Num(48), Num(1)),
    Station("E", "true", Missing, Num(0)),
    Station("F", "true", Num(47), NotNumeric),
    Station("G", "missing", Num(47), Num(0)),
    Station("H", "true", Num(47), Num(1)) }

Catalogs == UNION {[1 .. n -> StationPool] : n \in 0 .. MaxStations}

GridPoints == {[found |-> TRUE, lat |-> la, lon |-> lo] : la \in {47, 48}, lo \in {0, 1}}

InitNearest ==
  /\ pc = "nearest" /\ exitCode = 0 /\ exc = ""
  /\ args = DefaultArgs
  /\ inputs = DefaultInputs
  /\ directory = DefaultDirectory
  /\ meteo = NewMeteo(main_prologue(args, Today).date_deb,
                      main_prologue(args, Today).date_fin, FALSE)
  /\ idx = 1
  /\ result \in GridPoints
  /\ nearest = NoNearest
  /\ \E c \in Catalogs :
       departements = [r \in Regions |-> IF r = "49" THEN ListFile(c) ELSE AbsentFile]
  /\ cities_csv = [n \in CityNames |-> NoOutput]
  /\ requests = << Request("liste-stations", 1, "49", << >>, << >>),
                   Request("geocode", 1, "Angers", << >>, << >>) >>
  /\ orders = 0 /\ excel_col_index = 1
  /\ geo = GeoOff
  /\ today = Today
  /\ responses = << Response("ok", 200, ""), Response("found", 0, "") >>
  /\ stderr = NoMessage
  /\ call = NoCall

SpecNearest == InitNearest /\ [][StepNearest]_vars

(***************************************************************************)
(* Meteo used without main(): an object built with any two period dates,   *)
(* a station selected, and send_command_station called on it.              *)
(***************************************************************************)
InitSend ==
  /\ pc = "send" /\ exitCode = 0 /\ exc = ""
  /\ args = DefaultArgs
  /\ inputs = DefaultInputs
  /\ directory = DefaultDirectory
  /\ departements = [r \in Regions |-> directory[r]]
  /\ \E deb \in DateInputs, fin \in DateInputs :
       meteo = [NewMeteo(ArgStr(deb), ArgStr(fin), FALSE)
                  EXCEPT !.NEAREST_STATION_ID = St49Near.id]
  /\ idx = 1
  /\ result = [found |-> TRUE, lat |-> 47, lon |-> 0]
  /\ nearest = [station |-> St49Near, best_dist |-> 75834]
  /\ cities_csv = [n \in CityNames |-> NoOutput]
  /\ requests = << >> /\ orders = 0 /\ excel_col_index = 1
  /\ geo = GeoOff
  /\ today = Today
  /\ responses = << >> /\ stderr = NoMessage
  /\ call = NoCall

\* main() and the direct use of send_command_station side by side
SpecEntry == (InitMain \/ InitSend) /\ [][NextMain]_vars

(***************************************************************************)
(* The geocoding resolver taken alone, request by request and with time:   *)
(* geocode_city_with_department_code of the archived script ("archive",    *)
(* one location per run) and Meteo.geocode_city_with_county ("meteo",      *)
(* called for one location after the other as the loop of main does).      *)
(*                                                                         *)
(* geo.oracle is what the provider knows of the location at hand: the      *)
(* first direct formulation it answers with a place (directAt, 0 for       *)
(* none), the first region formulation it answers with a bounding box      *)
(* (bboxAt, 0 for none) and its answer to the bounded retry.  A            *)
(* formulation before these gets no usable answer: None, a result          *)
(* without bounding box, or an exception.                                  *)
(*                                                                         *)
(* Time is counted in seconds up to the limiter's delay: geo.since is, for *)
(* each RateLimiter, the time since its last call (-1: it made none), and  *)
(* geo.last the time since the last geocoding request of the run.          *)
(***************************************************************************)
\* RateLimiter(geolocator.geocode, min_delay_seconds=1)
MinDelay == 1

\* direct_queries and queries of the archived script
ArchiveDirectQueries == << "Departement", "Dept", "Department", "code" >>
ArchiveBboxQueries ==
  << "Departement", "Department", "Dept", "code pays", "code, pays" >>

DirectQueries(resolver) ==
  IF resolver = "archive" THEN ArchiveDirectQueries ELSE MeteoDirectQueries

\* the step that follows the direct queries: the archived script looks the
\* region up; in Meteo.geocode_city_with_county that part is commented out
\* (lines 247-275) and line 278 returns None
AfterDirect(resolver) == IF resolver = "archive" THEN "bbox" ELSE "None"

\* one pass of the loop of _try_geocode_department_bbox
BboxAttempt(answer) ==
  CASE answer = "bbox" -> "return"
    [] answer \in {"none", "nobbox", "error"} -> "next"

\* line 93 of the archived script:  if bbox:
RetryBounded_Always(bbox) == TRUE
RetryBounded(bbox) == bbox

\* RateLimiter: how long a call sleeps before it lets the request out
LimiterWait(since) ==
  IF since = -1 \/ since >= MinDelay THEN 0 ELSE MinDelay - since

Elapse(t, w) ==
  IF t = -1 THEN -1 ELSE IF t + w > MinDelay THEN MinDelay ELSE t + w

\* the state after a request went out through limiter l, w seconds of sleep
\* before it
Sent(g, l, w, phase, n, usable) ==
  [g EXCEPT
     !.since = [x \in DOMAIN g.since |-> IF x = l THEN 0 ELSE Elapse(g.since[x], w)],
     !.last = 0,
     !.lastGap = Elapse(g.last, w),
     !.log = Append(g.log, [loc |-> g.loc, phase |-> phase, n |-> n,
                            usable |-> usable])]

Oracles(resolver) ==
  [directAt : 0 .. Len(DirectQueries(resolver)),
   bboxAt : 0 .. Len(ArchiveBboxQueries),
   bounded : GeoAnswers]

NoOracle == [directAt |-> 0, bboxAt |-> 0, bounded |-> "none"]

GeoIdle(resolver) ==
  [resolver |-> resolver, pc |-> "idle", n |-> 0, loc |-> 0, oracle |-> NoOracle,
   bbox |-> FALSE, result |-> "pending", swallowed |-> FALSE, log |-> << >>,
   since |-> [l \in {"outer", "dept"} |-> -1], last |-> -1, lastGap |-> -1]

rest ==
  << pc, exitCode, exc, args, inputs, directory, meteo, idx, result, nearest,
     departements, cities_csv, requests, orders, excel_col_index, today,
     responses, stderr, call >>

\* a call of the resolver begins: _make_geocoder() builds a new RateLimiter
GeoBegin ==
  /\ geo.pc \in {"idle", "returned"}
  /\ geo.loc < (IF geo.resolver = "archive" THEN 1 ELSE MaxLocations)
  /\ \E o \in Oracles(geo.resolver) :
       geo' = [geo EXCEPT !.pc = "direct", !.n = 1, !.loc = geo.loc + 1,
                          !.oracle = o, !.bbox = FALSE, !.result = "pending",
                          !.swallowed = FALSE, !.since["outer"] = -1]
  /\ UNCHANGED rest

\* one pass of the loop over direct_queries
GeoDirect ==
  /\ geo.pc = "direct"
  /\ \E answer \in GeoAnswers :
       /\ (answer = "found") = (geo.n = geo.oracle.directAt)
       /\ LET w == LimiterWait(geo.since["outer"])
              g == Sent(geo, "outer", w, "direct", geo.n, answer = "found")
              last == geo.n = Len(DirectQueries(geo.resolver))
          IN  geo' =
                CASE Attempt(answer) = "return" ->
                       [g EXCEPT !.pc = "returned", !.result = "location"]
                  [] Attempt(answer) = "raise" -> [g EXCEPT !.pc = "raised"]
                  [] Attempt(answer) = "next" /\ ~last ->
                       [g EXCEPT !.n = geo.n + 1,
                                 !.swallowed = geo.swallowed \/ answer = "error"]
                  [] Attempt(answer) = "next" /\ last ->
                       IF AfterDirect(geo.resolver) = "bbox"
                       \* _try_geocode_department_bbox builds its own RateLimiter
                       THEN [g EXCEPT !.pc = "bbox", !.n = 1, !.since["dept"] = -1,
                                      !.swallowed = geo.swallowed \/ answer = "error"]
                       ELSE [g EXCEPT !.pc = "returned", !.result = "None",
                                      !.swallowed = geo.swallowed \/ answer = "error"]
  /\ UNCHANGED rest

\* one pass of the loop of _try_geocode_department_bbox, then  if bbox:
GeoBbox ==
  /\ geo.pc = "bbox"
  /\ \E answer \in {"bbox", "none", "nobbox", "error"} :
       /\ (answer = "bbox") = (geo.n = geo.oracle.bboxAt)
       /\ LET w == LimiterWait(geo.since["dept"])
              g == Sent(geo, "dept", w, "bbox", geo.n, answer = "bbox")
              h == [g EXCEPT !.swallowed = geo.swallowed \/ answer = "error"]
              found == BboxAttempt(answer) = "return"
          IN  geo' =
                IF ~found /\ geo.n < Len(ArchiveBboxQueries)
                THEN [h EXCEPT !.n = geo.n + 1]
                ELSE IF RetryBounded(found)
                THEN [h EXCEPT !.pc = "bounded", !.n = 1, !.bbox = found]
                ELSE [h EXCEPT !.pc = "returned", !.result = "None"]
  /\ UNCHANGED rest

\* the bounded retry of the bare city name, lines 96-110 of the archived script
GeoBounded ==
  /\ geo.pc = "bounded"
  /\ LET answer == geo.oracle.bounded
         w == LimiterWait(geo.since["outer"])
         g == Sent(geo, "outer", w, "bounded", 1, answer = "found")
     IN  geo' =
           CASE Attempt(answer) = "return" ->
                  [g EXCEPT !.pc = "returned", !.result = "location"]
             [] Attempt(answer) = "raise" -> [g EXCEPT !.pc = "raised"]
             [] OTHER ->
                  [g EXCEPT !.pc = "returned", !.result = "None",
                            !.swallowed = geo.swallowed \/ answer = "error"]
  /\ UNCHANGED rest

\* a second goes by
GeoTick ==
  /\ geo.pc # "raised"
  /\ geo' = [geo EXCEPT !.since = [x \in DOMAIN geo.since |-> Elapse(geo.since[x], 1)],
                        !.last = Elapse(geo.last, 1)]
  /\ geo' # geo
  /\ UNCHANGED rest

NextGeo == GeoBegin \/ GeoDirect \/ GeoBbox \/ GeoBounded \/ GeoTick

InitGeo ==
  /\ pc = "start" /\ exitCode = 0 /\ exc = ""
  /\ args = DefaultArgs
  /\ inputs = DefaultInputs
  /\ directory = DefaultDirectory
  /\ departements = DefaultCache
  /\ meteo = NewMeteo(ArgNone, ArgNone, FALSE)
  /\ idx = 0 /\ result = NoResult /\ nearest = NoNearest
  /\ cities_csv = [n \in CityNames |-> NoOutput]
  /\ requests = << >> /\ orders = 0 /\ excel_col_index = 1
  /\ today = Today
  /\ responses = << >> /\ stderr = NoMessage
  /\ call = NoCall
  /\ geo \in {GeoIdle("archive"), GeoIdle("meteo")}

SpecGeo == InitGeo /\ [][NextGeo]_vars

(***************************************************************************)
(* A method of Meteo called on its own, once, on an argument drawn from a  *)
(* set of inputs: call holds the method, the argument and, once the call   *)
(* is done, what it returned or raised.  main() does not run.              *)
(***************************************************************************)
others ==
  << pc, exitCode, exc, args, inputs, directory, meteo, idx, result, nearest,
     departements, cities_csv, requests, orders, excel_col_index, geo, today,
     responses, stderr >>

MainIdle ==
  /\ pc = "start" /\ exitCode = 0 /\ exc = ""
  /\ args = DefaultArgs
  /\ inputs = DefaultInputs
  /\ directory = DefaultDirectory
  /\ departements = DefaultCache
  /\ meteo = NewMeteo(ArgNone, ArgNone, FALSE)
  /\ idx = 0 /\ result = NoResult /\ nearest = NoNearest
  /\ cities_csv = [n \in CityNames |-> NoOutput]
  /\ requests = << >> /\ orders = 0 /\ excel_col_index = 1
  /\ geo = GeoOff
  /\ today = Today
  /\ responses = << >> /\ stderr = NoMessage

Call(fn, arg) == [fn |-> fn, arg |-> arg, out |-> << >>, done |-> FALSE]

\* the texts to_iso_midnight_z is called on: a year, a month and a day text
\* joined by "-", and what may follow them
IsoYears ==
  { << "2", "0", "2", "5" >>, << "2", "0", "2", "4" >>, << "0", "0", "0", "0" >>,
    << "2", "1" >> }
IsoMonths ==
  { << "1", "2" >>, << "1", "3" >>, << "0", "2" >>, << "2" >>, << "0", "9" >>,
    << "9" >>, << "0", "0" >> }
IsoDays ==
  { << "2", "1" >>, << "0", "1" >>, << "1" >>, << " ", "9" >>, << "2", "9" >>,
    << "3", "0" >>, << "3", "1" >>, << "3", "2" >>, << "0", "0" >>,
    << "2", "0", "2", "5" >> }
IsoSuffixes == { << >>, << " " >>, MidnightZ }

IsoInputs ==
  { y \o << "-" >> \o m \o << "-" >> \o d \o x :
      y \in IsoYears, m \in IsoMonths, d \in IsoDays, x \in IsoSuffixes }

InitIso ==
  /\ MainIdle
  /\ \E s \in IsoInputs : call = Call("to_iso_midnight_z", s)

CallIso ==
  /\ call.fn = "to_iso_midnight_z" /\ ~call.done
  /\ call' = [call EXCEPT !.out = to_iso_midnight_z(call.arg), !.done = TRUE]
  /\ UNCHANGED others

SpecIso == InitIso /\ [][CallIso]_vars

\* the points _haversine_km is called on: poles, equator, the date line, and
\* the grid of the station catalogs
Lats == {-90, -45, 0, 47, 48, 90}
Lons == {-180, -90, 0, 1, 90, 180}
Points == [lat : Lats, lon : Lons]

InitDistance ==
  /\ MainIdle
  /\ \E p \in Points, q \in Points : call = Call("_haversine_km", [p |-> p, q |-> q])

CallDistance ==
  /\ call.fn = "_haversine_km" /\ ~call.done
  /\ call' = [call EXCEPT
                !.out = haversine_formula(call.arg.p.lat, call.arg.p.lon,
                                          call.arg.q.lat, call.arg.q.lon),
                !.done = TRUE]
  /\ UNCHANGED others

SpecDistance == InitDistance /\ [][CallDistance]_vars

\* the cache files _should_write_json is called on: no file, a file that is
\* no JSON, a JSON value that is no list, and every list of station records
CacheFiles ==
  {AbsentFile, CorruptFile, ObjectFile} \cup {ListFile(c) : c \in Catalogs}

InitCache ==
  /\ MainIdle
  /\ \E f \in CacheFiles : call = Call("_should_write_json", f)

CallCache ==
  /\ call.fn = "_should_write_json" /\ ~call.done
  /\ call' = [call EXCEPT !.out = should_write_json(call.arg), !.done = TRUE]
  /\ UNCHANGED others

SpecCache == InitCache /\ [][CallCache]_vars

(***************************************************************************)
(* Notions the claims are stated with.                                     *)
(***************************************************************************)
\* the cache file counts as a hit: it exists and parses as a non-empty JSON list
FreshCache(file) == file.kind = "list" /\ file.data # << >>

\* a station that may be selected: open, latitude and longitude numeric
Eligible(st) ==
  st.posteOuvert = "true" /\ st.lat.k = "num" /\ st.lon.k = "num"

\* the catalog find_nearest_station reads for the record the loop is at
catalog == departements[city.departement].data

DistanceTo(st) == haversine_km(result.lat, result.lon, st.lat.v, st.lon.v)

\* the ways of writing day d of month m of year y as year-month-day text: a
\* month or day below 10 with or without its leading zero, the day also padded
\* with a space
Unpadded(n) == IF n < 10 THEN << DigitChar(n) >> ELSE Pad2(n)
SpacePadded(n) == IF n < 10 THEN << " ", DigitChar(n) >> ELSE Pad2(n)
Writings(y, m, d) ==
  { Pad4(y) \o << "-" >> \o mm \o << "-" >> \o dd :
      mm \in {Pad2(m), Unpadded(m)},
      dd \in {Pad2(d), Unpadded(d), SpacePadded(d)} }

\* a text that writes a calendar date, year first
IsDateText(s) ==
  /\ Len(s) >= 4
  /\ \A i \in 1 .. 4 : s[i] \in Digit
  /\ LET y == NumVal(SubSeq(s, 1, 4))
     IN  /\ y >= 1
         /\ \E m \in 1 .. 12 : \E d \in 1 .. DaysInMonth(y, m) : s \in Writings(y, m, d)

MalformedDates == {s \in DateInputs : ~IsDateText(s)}

RequestsTo(api) == {i \in DOMAIN requests : requests[i].api = api}

(***************************************************************************)
(* The claims.                                                             *)
(***************************************************************************)

\* C1: when write_stations_by_departement is called while the cache file of the
\* region is a non-empty JSON list and neither the record's force nor API_FORCE
\* is set, no request is sent to the station-directory provider.
C1_CacheHitSendsNothing ==
  [][(/\ pc = "write_stations"
      /\ city.departement \in Regions
      /\ FreshCache(departements[city.departement])
      /\ ~city.force /\ ~meteo.API_FORCE)
       => requests' = requests]_vars

\* C2: when the order-submit response carries no identifier (API_COMMAND_ID is
\* None), no file request is sent with an absent identifier and the fetch step
\* of that record does not succeed: no output file is written for it.
C2_NoFetchWithoutIdentifier ==
  /\ \A i \in RequestsTo("commande/fichier") : requests[i].arg \notin {"None", "unset"}
  /\ \A n \in CityNames : cities_csv[n].exists => cities_csv[n].order # "None"

\* C3: on a catalog that is empty or holds only records that are closed or have
\* a missing or non-numeric lat/lon, find_nearest_station returns (None, None)
\* and raises nothing.
C3_NoEligibleReturnsNone ==
  (/\ pc # "nearest"
   /\ \A i \in DOMAIN catalog :
        \/ catalog[i].posteOuvert = "false"
        \/ catalog[i].lat.k # "num"
        \/ catalog[i].lon.k # "num")
    => (pc = "send" /\ nearest = NoNearest)

\* C4: the station find_nearest_station returns is open and has a numeric
\* latitude and longitude, also when a closed station is strictly closer.
C4_ReturnedStationEligible ==
  pc = "send" => Eligible(nearest.station)

\* C4 witness: a station was returned although a closed station of the catalog
\* is strictly closer to the query point
C4_Witness ==
  /\ pc = "send"
  /\ \E i \in DOMAIN catalog :
       /\ catalog[i].posteOuvert = "false"
       /\ catalog[i].lat.k = "num" /\ catalog[i].lon.k = "num"
       /\ DistanceTo(catalog[i]) < nearest.best_dist

\* C5: when the catalog holds at least one eligible station, find_nearest_station
\* returns an eligible station at minimal distance among the eligible ones, and
\* of several at that distance the first in catalog order.
C5_NearestFirstMinimum ==
  (/\ pc # "nearest"
   /\ \E i \in DOMAIN catalog : Eligible(catalog[i]))
    => /\ pc = "send"
       /\ \E i \in DOMAIN catalog :
            /\ catalog[i] = nearest.station
            /\ Eligible(catalog[i])
            /\ nearest.best_dist = DistanceTo(catalog[i])
            /\ \A j \in DOMAIN catalog :
                 Eligible(catalog[j]) =>
                   /\ DistanceTo(catalog[j]) >= DistanceTo(catalog[i])
                   /\ DistanceTo(catalog[j]) = DistanceTo(catalog[i]) => j >= i

C7_BoundedFallbackReturned ==
  (/\ geo.resolver = "meteo"
   /\ geo.pc = "returned"
   /\ geo.oracle.directAt = 0
   /\ geo.oracle.bboxAt > 0
   /\ geo.oracle.bounded = "found")
    => geo.result = "location"

\* the request that may directly follow request e within one resolution
FollowsInOrder(e, f) ==
  \/ /\ e.phase = "direct" /\ ~e.usable
     /\ \/ f.phase = "direct" /\ f.n = e.n + 1
        \/ /\ f.phase = "bbox" /\ f.n = 1
           /\ e.n = Len(DirectQueries(geo.resolver))
  \/ /\ e.phase = "bbox" /\ ~e.usable
     /\ f.phase = "bbox" /\ f.n = e.n + 1
  \/ /\ e.phase = "bbox" /\ e.usable
     /\ f.phase = "bounded"

\* C8: the resolver is a first-success chain: its requests go out in the fixed
\* order (direct formulations, region formulations, one bounded retry), no
\* request follows a place-name request that returned a usable result, that
\* result is what the resolver returns, and the bounded retry goes out only
\* after a bounding box was obtained.
C8_FirstSuccessChain ==
  /\ \A i \in DOMAIN geo.log :
       IF i = 1 \/ geo.log[i - 1].loc # geo.log[i].loc
       THEN geo.log[i].phase = "direct" /\ geo.log[i].n = 1
       ELSE FollowsInOrder(geo.log[i - 1], geo.log[i])
  /\ geo.pc = "returned" =>
       LET e == geo.log[Len(geo.log)]
       IN  (geo.result = "location")
             = (e.usable /\ e.phase \in {"direct", "bounded"})

\* C8 witness: the archived resolver went through the whole chain and returned
\* the place found by the bounded retry
C8_Witness ==
  /\ geo.resolver = "archive"
  /\ geo.pc = "returned" /\ geo.result = "location"
  /\ geo.log[Len(geo.log)].phase = "bounded"
  /\ Len(geo.log) = Len(ArchiveDirectQueries) + Len(ArchiveBboxQueries) + 1

\* C9: an exception raised by the geocoding provider in an attempt never leaves
\* the resolver: the resolver goes on, and it ends with a location or with None.
C9_ProviderErrorNeverEscapes ==
  /\ geo.pc # "raised"
  /\ geo.pc = "returned" => geo.result \in {"location", "None"}

\* C9 witness: the resolver returned after the provider raised in an attempt
C9_Witness ==
  /\ geo.pc = "returned"
  /\ geo.swallowed

\* C10: between any two consecutive geocoding requests of a run at least the
\* minimum delay elapses, whichever strategy and whichever location they are
\* sent for.
C10_MinDelayBetweenRequests ==
  geo.lastGap = -1 \/ geo.lastGap >= MinDelay

\* the requests answered with a failure that is no HTTP error status: a TLS
\* failure, a timeout or connection failure, a body that is no JSON
TransportOrDecode == {"ssl", "transport", "notjson"}

\* C11 as stated: a transport or decode failure of the station-directory
\* provider while processing one record aborts only that record, so with records
\* left in the batch the run has not ended.
C11_DirectoryFailureAbortsOnlyRecord ==
  \A i \in RequestsTo("liste-stations") :
    (responses[i].kind \in TransportOrDecode /\ requests[i].rec < Len(inputs.data))
      => pc \notin {"exit", "crash"}

\* C11 amended: a transport or decode failure of the station-directory provider
\* ends the whole run with exit code 4 and the message "Erreur: <e>": it is the
\* last request of the run, whatever records are left.
C11_DirectoryFailureEndsRun ==
  \A i \in RequestsTo("liste-stations") :
    responses[i].kind \in TransportOrDecode
      => /\ i = Len(requests)
         /\ pc = "exit" /\ exitCode = 4
         /\ stderr.head = "Erreur:"
         /\ idx = requests[i].rec

\* C11 witness: the run ended on the first of two records, the directory request
\* having timed out
C11_Witness ==
  /\ pc = "exit" /\ exitCode = 4
  /\ idx = 1 /\ Len(inputs.data) > 1
  /\ requests[Len(requests)].api = "liste-stations"
  /\ responses[Len(responses)].kind = "transport"

\* C12: a record whose geocoding ends in not-found, or whose catalog holds no
\* eligible station, does not abort the batch: the run does not end on it with
\* sys.exit or an uncaught exception.
C12_NotFoundDoesNotAbort ==
  LET n == Len(requests)
  IN  (n > 0 /\ requests[n].api = "geocode") =>
        /\ responses[n].kind # "found" => pc \notin {"exit", "crash"}
        /\ (/\ responses[n].kind = "found"
            /\ departements[city.departement].kind = "list"
            /\ \A i \in DOMAIN catalog : ~Eligible(catalog[i]))
             => pc # "crash"

C14_HttpErrorCarriesStatusAndBody ==
  \A i \in RequestsTo("commande-station") :
    responses[i].kind = "http"
      => /\ StatusText(responses[i].status) \in {stderr.status, stderr.e.text}
         /\ stderr.content = responses[i].body

\* C15: a failure of the file request is classified by get_and_download_file as
\* a failure of the order submission is: the run ends with exit code 6 after a
\* TLS failure, 3 after an HTTP error status, 4 after any other request failure,
\* and never with an uncaught exception.
C15_FetchFailureClassified ==
  \A i \in RequestsTo("commande/fichier") :
    LET kind == responses[i].kind
    IN  kind \in {"ssl", "http", "transport"}
          => /\ pc = "exit"
             /\ exitCode = CASE kind = "ssl" -> 6 [] kind = "http" -> 3 [] OTHER -> 4

\* how a timeout or connection failure of the directory request or of the order
\* submission ends: the exit code and the head of the message
TransportOutcome(api) ==
  IF api = "liste-stations"
  THEN [exit |-> write_stations_by_departement("49", FALSE, FALSE, AbsentFile,
                                               "transport", AbsentFile).exit,
        head |-> write_stations_stderr("RequestException",
                                       ResponseTo("transport", 0)).head]
  ELSE [exit |-> send_command_station("RequestException"),
        head |-> send_command_station_stderr("RequestException",
                                             ResponseTo("transport", 0)).head]

DecodeFailures ==
  {i \in RequestsTo("liste-stations") \cup RequestsTo("commande-station") :
     responses[i].kind = "notjson"}

SentDate(text) == strptime(SubSeq(text, 1, 10)).date

\* C17: in every order the pipeline submits, the period start is not later than
\* the period end as calendar dates, whatever accepted form --date-deb and
\* --date-fin were written in.
C17_PeriodStartNotAfterEnd ==
  \A i \in RequestsTo("commande-station") :
    ~DateGreater(SentDate(requests[i].deb), SentDate(requests[i].fin))

\* the answers with which a request has succeeded
Success == {"ok", "found", "ok_id", "ok_noid"}

\* the last request of the run is the request  api  of the record the loop is
\* at, and it succeeded
LastSucceeded(api) ==
  /\ requests # << >>
  /\ requests[Len(requests)].api = api
  /\ requests[Len(requests)].rec = idx
  /\ responses[Len(requests)].kind \in Success

\* one step of the run keeps the order of the pipeline: a step is entered from
\* the step before it, of the same record, once that one has succeeded
InOrder ==
  /\ pc' = "write_stations" =>
        \/ pc = "start" /\ idx' = 1
        \/ pc = "excel" /\ idx' = idx + 1 /\ LastSucceeded("commande/fichier")
  /\ pc' = "geocode" => pc = "write_stations" /\ LastSucceeded("liste-stations")'
  /\ pc' = "nearest" => pc = "geocode" /\ LastSucceeded("geocode")'
  /\ pc' = "send" =>
        pc = "nearest" /\ LastSucceeded("geocode") /\ nearest'.station # NoStation
  /\ pc' = "download" => pc = "send" /\ LastSucceeded("commande-station")'
  /\ pc' = "excel" => pc = "download" /\ LastSucceeded("commande/fichier")'
  /\ (pc' # "write_stations") => idx' = idx

\* the request that follows request i in the log
Follows(i) ==
  LET a == requests[i]
      b == requests[i + 1]
  IN  /\ responses[i].kind \in Success
      /\ \/ /\ b.rec = a.rec
            /\ << a.api, b.api >> \in
                 { << "liste-stations", "geocode" >>,
                   << "geocode", "commande-station" >>,
                   << "commande-station", "commande/fichier" >> }
         \/ /\ b.rec = a.rec + 1
            /\ a.api = "commande/fichier" /\ b.api = "liste-stations"

\* C18: for each record the steps come in the order catalog refresh, geocoding,
\* nearest-station selection, order submit, file fetch, each one starting only
\* after the one before it succeeded, and no step of the next record starts
\* before the last step of the record has completed.
C18_StepsInOrder ==
  /\ [](/\ requests # << >> =>
             requests[1].api = "liste-stations" /\ requests[1].rec = 1
         /\ \A i \in 1 .. Len(requests) - 1 : Follows(i))
  /\ [][InOrder]_vars

\* C18 witness: two records went through all their steps
C18_Witness ==
  /\ pc = "done" /\ idx = 2
  /\ Len(requests) = 8
  /\ requests[5].api = "liste-stations" /\ requests[5].rec = 2

\* C19: the station id sent in the order submission of a record is the id of
\* the station find_nearest_station selected for that record: a station of the
\* record's catalog, open and located, at minimal distance among those, never a
\* closed one and never the id of a previous record.
C19_SubmittedStationIsSelected ==
  \A i \in RequestsTo("commande-station") :
    requests[i].rec = idx =>
      /\ requests[i].arg = nearest.station.id
      /\ Eligible(nearest.station)
      /\ \E k \in DOMAIN catalog : catalog[k] = nearest.station
      /\ \A k \in DOMAIN catalog :
           Eligible(catalog[k]) => DistanceTo(catalog[k]) >= DistanceTo(nearest.station)

\* C19 witness: the second record was ordered with the station of its own
\* region, the first with the nearest open station of a catalog whose closed
\* station is closer
C19_Witness ==
  /\ idx = 2 /\ pc = "download"
  /\ \E i, j \in RequestsTo("commande-station") :
       /\ requests[i].rec = 1 /\ requests[i].arg = St49Near.id
       /\ requests[j].rec = 2 /\ requests[j].arg = St19.id
  /\ departements["49"].data = << St49Closed, St49Far, St49Near >>
  /\ inputs.data[1].name = "Angers"

\* C20: on a cache miss (file absent, empty or unparsable) or a forced refresh
\* (the record's force or API_FORCE), once write_stations_by_departement has
\* returned the cache file of the region holds exactly the provider's data, and
\* the cache file of every other region is unchanged.
C20_RefreshWritesProviderData ==
  [][(/\ pc = "write_stations" /\ pc' = "geocode"
      /\ \/ ~FreshCache(departements[city.departement])
         \/ city.force
         \/ meteo.API_FORCE)
       => departements' =
            [departements EXCEPT ![city.departement] = directory[city.departement]]]_vars

\* C20 witness: the unparsable file of region 49 was replaced by the provider's
\* stations, the file of region 19 is still the empty list it was
C20_Witness ==
  /\ pc = "geocode" /\ city.departement = "49"
  /\ departements["49"] = directory["49"]
  /\ departements["49"].data # << >>
  /\ departements["19"] = ListFile(<< >>)
  /\ directory["19"] # ListFile(<< >>)

\* the three external calls of the climate-data provider's client
ProviderCalls == {"liste-stations", "commande-station", "commande/fichier"}

\* request j asks again what request i asked
SameRequest(i, j) ==
  /\ requests[j].api = requests[i].api
  /\ requests[j].arg = requests[i].arg
  /\ requests[j].deb = requests[i].deb
  /\ requests[j].fin = requests[i].fin

\* C21: no external call is retried: for each record at most one
\* station-directory request, one order-submit request and one file request is
\* sent, and a request that failed is never sent again.
C21_NoRetry ==
  /\ \A i, j \in DOMAIN requests :
       (/\ i < j
        /\ requests[i].api \in ProviderCalls
        /\ requests[i].api = requests[j].api)
         => requests[i].rec < requests[j].rec
  /\ \A i, j \in DOMAIN requests :
       (/\ i < j
        /\ requests[i].api \in ProviderCalls
        /\ responses[i].kind \notin Success)
         => ~SameRequest(i, j)

\* C21 witness: the second record asks for the same station and period as the
\* first; its order submission failed, was sent once, and the run is over
C21_Witness ==
  /\ pc \in {"exit", "crash"} /\ idx = 2
  /\ inputs.data[2].name = inputs.data[1].name
  /\ requests[Len(requests)].api = "commande-station"
  /\ responses[Len(requests)].kind = "transport"
  /\ Cardinality({i \in RequestsTo("commande-station") : requests[i].rec = 2}) = 1

\* the date a text writes, when it writes one
DateOf(s) ==
  CHOOSE d \in {NumVal(SubSeq(s, 1, 4))} \X (1 .. 12) \X (1 .. 31) :
    s \in Writings(d[1], d[2], d[3])

\* a valid date in AAAA-MM-DD form: four, two and two digits
IsStrictDate(s) == IsDateText(s) /\ s = DateStr(DateOf(s))

NoRegion == {k \in DOMAIN inputs.data : inputs.data[k].departement = "None"}

\* C23: a record without region code fails validation before any I/O:
\* call_api_list raises before the station-directory request is sent, and no
\* request goes out and no cache file is written for that record.
C23_NoRegionNoIO ==
  /\ [](\A k \in NoRegion :
          /\ \A i \in DOMAIN requests : requests[i].rec # k
          /\ (idx = k /\ pc # "write_stations") =>
                pc = "exit" /\ stderr.e.name = "RuntimeError")
  /\ [][(pc = "write_stations" /\ idx \in NoRegion) =>
          /\ requests' = requests
          /\ departements' = departements
          /\ cities_csv' = cities_csv]_vars

\* C23 witness: after a first record that went through, the run ended on a
\* second record without region code, with nothing sent for it
C23_Witness ==
  /\ pc = "exit" /\ idx = 2 /\ idx \in NoRegion
  /\ stderr.e.name = "RuntimeError"
  /\ Len(requests) = 4 /\ requests[4].rec = 1

\* the points of the grid the table haversine_km covers
OnCatalogGrid(p) == p.lat \in {47, 48} /\ p.lon \in {0, 1}

\* C24: _haversine_km returns exactly 0 for two identical points, whatever
\* the point: distance(p, p) = 0.
C24_DistanceToSelfIsZero ==
  (call.fn = "_haversine_km" /\ call.done /\ call.arg.p = call.arg.q) =>
    /\ call.out = 0
    /\ OnCatalogGrid(call.arg.p) =>
         haversine_km(call.arg.p.lat, call.arg.p.lon,
                      call.arg.q.lat, call.arg.q.lon) = 0

\* C24 witness: the distance of the point 45 degrees south on the date line to
\* itself was computed and is 0
C24_Witness ==
  /\ call.fn = "_haversine_km" /\ call.done
  /\ call.arg.p = [lat |-> -45, lon |-> 180]
  /\ call.arg.q = call.arg.p
  /\ call.out = 0

\* the run is over: sys.exit was called or an exception left main
Stopped == pc \in {"exit", "crash"}

\* the records after the one the loop is at
LaterRecords == {k \in DOMAIN inputs.data : k > idx}

\* C25: after the first fatal failure on a record (the catalog request, the
\* geocoding, the order submission or the file request failed) the whole run
\* stops: no request is sent and no output file is written for a later record.
C25_FirstFailureStopsRun ==
  /\ [](\A i \in DOMAIN requests :
          responses[i].kind \notin Success =>
            /\ Stopped
            /\ i = Len(requests) /\ requests[i].rec = idx
            /\ \A k \in LaterRecords :
                 /\ \A j \in DOMAIN requests : requests[j].rec # k
                 /\ (\A e \in 1 .. idx : inputs.data[e].name # inputs.data[k].name)
                      => cities_csv[inputs.data[k].name] = NoOutput)
  /\ [][Stopped => (requests' = requests /\ cities_csv' = cities_csv)]_vars

\* C25 witness: the file request of the first of two records was answered with
\* an error status; the run is over and the second record has no output
C25_Witness ==
  /\ Stopped /\ idx = 1 /\ Len(inputs.data) = 2
  /\ requests # << >>
  /\ requests[Len(requests)].api = "commande/fichier"
  /\ responses[Len(requests)].kind = "http"
  /\ inputs.data[2].name # inputs.data[1].name
  /\ cities_csv[inputs.data[2].name] = NoOutput

\* the order submission that a file request follows in the log
SubmitBefore(i) == i - 1

\* C26: the order identifier a record's file request is sent with is the value
\* the submit response of that same record assigned (None when it assigned
\* none); it is assigned once per record, and an identifier obtained for an
\* earlier record is never used for a later record's file.
C26_FetchUsesOwnOrderId ==
  \A i \in RequestsTo("commande/fichier") :
    LET s == SubmitBefore(i)
    IN  /\ s \in RequestsTo("commande-station")
        /\ requests[s].rec = requests[i].rec
        /\ \A j \in RequestsTo("commande-station") :
             requests[j].rec = requests[i].rec => j = s
        /\ responses[s].kind \in {"ok_id", "ok_noid"}
        /\ responses[s].kind = "ok_id" => requests[i].arg = responses[s].body
        /\ responses[s].kind = "ok_noid" => requests[i].arg = "None"
        /\ \A j \in RequestsTo("commande-station") :
             (j < s /\ responses[j].kind = "ok_id")
               => requests[i].arg # responses[j].body

\* C26 witness: the first record was assigned cmde1 and fetched with it; the
\* submit response of the second record carried no identifier, and its file
\* request was sent with None and not with cmde1
C26_Witness ==
  /\ Len(requests) = 8
  /\ responses[3].kind = "ok_id" /\ responses[3].body = OrderIds[1]
  /\ requests[4].arg = OrderIds[1]
  /\ responses[7].kind = "ok_noid"
  /\ requests[8].api = "commande/fichier" /\ requests[8].arg = "None"

\* C27: find_nearest_station raises no error on a malformed record: a record
\* whose open flag is missing or false, or whose lat or lon is missing or not
\* numeric, is skipped, and the other records of the catalog are still
\* considered, so with an eligible record in the catalog the call returns the
\* nearest of the eligible ones.
C27_MalformedRecordSkipped ==
  (/\ pc # "nearest"
   /\ \E i \in DOMAIN catalog : ~Eligible(catalog[i])
   /\ \E i \in DOMAIN catalog : Eligible(catalog[i]))
    => /\ pc = "send"
       /\ Eligible(nearest.station)
       /\ \A i \in DOMAIN catalog :
            Eligible(catalog[i]) => nearest.best_dist <= DistanceTo(catalog[i])

\* the file requests answered with success, for a record of the given name
Fetched(name) ==
  {i \in RequestsTo("commande/fichier") :
     responses[i].kind = "ok" /\ inputs.data[requests[i].rec].name = name}

\* C28: call_api_download_file writes cities/<city>.csv with exactly the
\* content of the provider's response, and only when the file request
\* succeeded: when it fails (error status, timeout, connection or TLS failure)
\* the output file of the location is neither created nor modified.
C28_OutputOnlyOnSuccess ==
  /\ [](\A n \in CityNames :
          cities_csv[n].exists =>
            \E i \in Fetched(n) : cities_csv[n] = Output(responses[i].body))
  /\ [][pc = "download" =>
          LET n == Len(responses')
          IN  IF n > Len(responses) /\ responses'[n].kind = "ok"
              THEN cities_csv' =
                     [cities_csv EXCEPT ![city.name] = Output(responses'[n].body)]
              ELSE cities_csv' = cities_csv]_vars

\* C28 witness: the file of the location was written for the first record; the
\* file request of the second record, for the same location, timed out and the
\* file is as the first record left it
C28_Witness ==
  /\ pc = "crash" /\ idx = 2
  /\ inputs.data[2].name = inputs.data[1].name
  /\ requests[Len(requests)].api = "commande/fichier"
  /\ responses[Len(requests)].kind = "transport"
  /\ cities_csv[city.name] = Output(OrderIds[1])

CacheHit ==
  /\ pc = "write_stations"
  /\ city.departement \in Regions
  /\ FreshCache(departements[city.departement])
  /\ ~city.force /\ ~meteo.API_FORCE

\* C30: on a cache hit write_stations_by_departement leaves the cache file as
\* it is, so the catalog find_nearest_station then reads is the cached one and
\* not the data fetched during the call: the file is unchanged by the call and
\* up to the selection, and the station selected is a record of that file.
C30_CacheHitKeepsCatalog ==
  [][/\ CacheHit => departements' = departements
     /\ pc \in {"geocode", "nearest"} => departements' = departements
     /\ (pc = "nearest" /\ pc' = "send") =>
          \E i \in DOMAIN catalog : nearest'.station = catalog[i]]_vars

\* C30 witness: the cached catalog of region 49 holds one station; the provider
\* answered the call with three, one of them nearer to the location, and the
\* station selected is the cached one
C30_Witness ==
  /\ pc = "send" /\ idx = 1
  /\ city.departement = "49" /\ ~city.force /\ ~meteo.API_FORCE
  /\ departements["49"] = ListFile(<< St49Far >>)
  /\ directory["49"] = ListFile(<< St49Closed, St49Far, St49Near >>)
  /\ responses[1].kind = "ok"
  /\ nearest.station = St49Far
  /\ DistanceTo(St49Near) < nearest.best_dist

\* --date-fin is given as a valid date in AAAA-MM-DD form that is not later than
\* today, --date-deb is a valid date not later than it, and the provider's
\* address and key are known
GivenEndInRange ==
  /\ args.api_url /\ args.api_key
  /\ args.date_fin.t = "str" /\ IsStrictDate(args.date_fin.s)
  /\ ~DateGreater(DateOf(args.date_fin.s), today)
  /\ IsStrictDate(args.date_deb)
  /\ ~DateGreater(DateOf(args.date_deb), DateOf(args.date_fin.s))

\* main has ended in the checks of the two dates, lines 59-70, before the Meteo
\* object exists
StoppedAtDates ==
  /\ idx = 0
  /\ \/ pc = "exit" /\ exitCode \in {4, 5}
     \/ pc = "crash" /\ exc = "TypeError"

\* C31: when --date-fin is a valid AAAA-MM-DD date not later than today and
\* --date-deb a valid date not later than it, main passes the validation of the
\* dates, and every order the run submits has the given --date-fin as its period
\* end.
C31_GivenEndIsUsed ==
  GivenEndInRange =>
    /\ ~StoppedAtDates
    /\ \A i \in RequestsTo("commande-station") :
         SentDate(requests[i].fin) = DateOf(args.date_fin.s)

\* --date-fin is left out, or given as a date later than today
EndLeftToToday ==
  \/ args.date_fin = ArgNone
  \/ /\ args.date_fin.t = "str" /\ strptime(args.date_fin.s).ok
     /\ DateGreater(strptime(args.date_fin.s).date, today)

\* the Meteo object has been built: __init__ has stored the period
MeteoBuilt == meteo.API_DATE_FIN # ArgNone

\* C32: every order the pipeline submits has a period end that is not later than
\* the current date; when --date-fin is left out or is later than today, the
\* Meteo object is built with today as the end of the period.
C32_EndNotAfterToday ==
  /\ \A i \in RequestsTo("commande-station") :
       ~DateGreater(SentDate(requests[i].fin), today)
  /\ (MeteoBuilt /\ EndLeftToToday) => meteo.API_DATE_FIN = ArgStr(DateStr(today))

\* C32 witness: an order has been submitted in a run given a --date-fin later
\* than today, and its period ends today
C32_Witness ==
  /\ args.date_fin.t = "str"
  /\ DateGreater(strptime(args.date_fin.s).date, today)
  /\ \E i \in RequestsTo("commande-station") :
       SentDate(requests[i].fin) = today

\* the run is over: the loop of main is through, or the process has ended on
\* sys.exit or on an exception
Terminated == pc = "done" \/ Stopped

\* the records the run has completed: set_excel has returned for them
Completed == excel_col_index - 1

\* no record is at the same step twice: the log holds at most one request of a
\* kind for a record
NoRecordTwice ==
  \A i, j \in DOMAIN requests :
    (requests[i].api = requests[j].api /\ requests[i].rec = requests[j].rec)
      => i = j

\* the loop goes through the batch in order: a step stays with its record or
\* opens the next one, and a run that is over takes no step
Forward ==
  /\ ~Terminated
  /\ \/ idx' = idx /\ (pc' = "write_stations" => pc = "start")
     \/ idx' = idx + 1 /\ pc' = "write_stations"
  /\ Completed' \in {Completed, Completed + 1}

\* C33: for every batch and every outcome of the external calls the run
\* terminates; it ends having completed every record of the batch, or stopped at
\* the first failure with the records before it completed; and no record is
\* processed twice.
C33_RunTerminates ==
  /\ <>Terminated
  /\ [](pc = "done" => inputs.kind = "list" /\ Completed = Len(inputs.data)
                       /\ idx = Len(inputs.data))
  /\ [](Stopped => Completed = (IF idx = 0 THEN 0 ELSE idx - 1))
  /\ []NoRecordTwice
  /\ [][Forward]_vars

\* C33 witness: a batch of the greatest size is through, with every request of
\* every record in the log
C33_Witness ==
  /\ pc = "done"
  /\ Len(inputs.data) = MaxCities
  /\ Completed = MaxCities
  /\ \A r \in 1 .. MaxCities :
       \A api \in ProviderCalls \cup {"geocode"} :
         \E i \in DOMAIN requests : requests[i].api = api /\ requests[i].rec = r

====
